---- MODULE Spec2Model ----
(***************************************************************************)
(* A model of scripts/verify_json_schema.py: the discovery of schema       *)
(* sources (.json files, fenced json blocks of Markdown files, snippet     *)
(* includes), the two per-source checkers and the report of main().         *)
(*                                                                         *)
(* Text is modelled over a finite alphabet of lines.  A text is the        *)
(* sequence of its lines (the text split at "\n"), so the empty text is     *)
(* <<"">>.  strip, lower and startswith are tabulated over that alphabet.  *)
(* Files that exist are regular, readable UTF-8 files, and the paths given *)
(* to main() exist.  An exception nothing catches ends the process with a  *)
(* traceback and exit status 1.                                            *)
(***************************************************************************)
EXTENDS Integers, Sequences, FiniteSets, TLC

(***************************************************************************)
(* Bounds of the model.                                                    *)
(***************************************************************************)
MaxLines == 5
MaxPaths == 2

(***************************************************************************)
(* The alphabet of lines.                                                  *)
(***************************************************************************)
\* <BT> stands for the backtick character, which a TLA+ string cannot hold.
Ticks == "<BT><BT><BT>"
FenceJson == Ticks \o "json"
FenceJsonUpper == Ticks \o "JSON"
FenceJsonPadded == "  " \o FenceJsonUpper
FenceBare == Ticks
FencePython == Ticks \o "python"
Blank == ""
TargetA == "a.json"
TargetB == "b.json"
DirectiveA == "--8<-- \"a.json\""
DirectiveB == "--8<-- 'b.json'"
Junk == "{not valid json"

UriHttpHash == "http://json-schema.org/draft-07/schema#"
UriHttpsHash == "https://json-schema.org/draft-07/schema#"
UriHttp == "http://json-schema.org/draft-07/schema"
UriHttps == "https://json-schema.org/draft-07/schema"
UriDraft06 == "http://json-schema.org/draft-06/schema#"

DRAFT07_URIS == {UriHttpHash, UriHttpsHash, UriHttp, UriHttps}

(***************************************************************************)
(* Python values.  PyNone, PyStr, ... are the values a "$schema" member    *)
(* can hold; repr is what {schema_uri!r} prints.                           *)
(***************************************************************************)
PyNone == [type |-> "NoneType", str |-> "", repr |-> "None"]
PyStr(s) == [type |-> "str", str |-> s, repr |-> "'" \o s \o "'"]
PyInt7 == [type |-> "int", str |-> "", repr |-> "7"]
PyList == [type |-> "list", str |-> "", repr |-> "[]"]
PyDict == [type |-> "dict", str |-> "", repr |-> "{}"]

\* A parsed JSON object: whether it has a "$schema" member, that member's
\* value, and whether its other members satisfy the Draft-07 meta-schema.
Dict(has, member, ok) ==
    [type |-> "dict", has_schema |-> has, schema_member |-> member,
     keywords_ok |-> ok, msg |-> ""]
\* A parsed JSON value that is no object.
NonDict(t) ==
    [type |-> t, has_schema |-> FALSE, schema_member |-> PyNone,
     keywords_ok |-> TRUE, msg |-> ""]
\* A json.JSONDecodeError with its msg.
JSONDecodeError(m) ==
    [type |-> "JSONDecodeError", has_schema |-> FALSE, schema_member |-> PyNone,
     keywords_ok |-> TRUE, msg |-> m]

(***************************************************************************)
(* The one-line JSON documents of the alphabet, with the value json.loads  *)
(* gives each.                                                             *)
(***************************************************************************)
SchemaDoc(literal) == "{\"$schema\": " \o literal \o "}"
StrLiteral(s) == "\"" \o s \o "\""

DocEmptyObject == "{}"
DocBadKeyword == "{\"type\": \"nope\"}"
DocDraft07BadKeyword ==
    "{\"$schema\": " \o StrLiteral(UriHttpHash) \o ", \"type\": \"nope\"}"
DocArray == "[]"
DocString == "\"text\""

DocTable ==
    { [text |-> SchemaDoc(StrLiteral(u)), value |-> Dict(TRUE, PyStr(u), TRUE)] :
        u \in DRAFT07_URIS \cup {UriDraft06} }
    \cup
    { [text |-> SchemaDoc("7"), value |-> Dict(TRUE, PyInt7, TRUE)],
      [text |-> SchemaDoc("null"), value |-> Dict(TRUE, PyNone, TRUE)],
      [text |-> SchemaDoc("[]"), value |-> Dict(TRUE, PyList, TRUE)],
      [text |-> SchemaDoc("{}"), value |-> Dict(TRUE, PyDict, TRUE)],
      [text |-> DocEmptyObject, value |-> Dict(FALSE, PyNone, TRUE)],
      [text |-> DocBadKeyword, value |-> Dict(FALSE, PyNone, FALSE)],
      [text |-> DocDraft07BadKeyword, value |-> Dict(TRUE, PyStr(UriHttpHash), FALSE)],
      [text |-> DocArray, value |-> NonDict("list")],
      [text |-> DocString, value |-> NonDict("str")] }

Docs == { d.text : d \in DocTable }
DocValue(line) == (CHOOSE d \in DocTable : d.text = line).value

(***************************************************************************)
(* str.strip, str.lower and str.startswith over the alphabet.              *)
(***************************************************************************)
strip(line) == IF line = FenceJsonPadded THEN FenceJsonUpper ELSE line
lower(s) == IF s = FenceJsonUpper THEN FenceJson ELSE s
startswith(s, prefix) ==
    CASE prefix = FenceJson -> s = FenceJson
      [] prefix = Ticks -> s \in {FenceJson, FenceJsonUpper, FenceBare, FencePython}
      [] OTHER -> FALSE

IsSpace(line) == strip(line) = ""

\* "\n".join(lines): the text whose lines are the given ones.
join(lines) == IF lines = <<>> THEN <<"">> ELSE lines

RECURSIVE lstrip_text(_)
lstrip_text(text) ==
    IF Len(text) > 1 /\ IsSpace(text[1]) THEN lstrip_text(Tail(text)) ELSE text

RECURSIVE rstrip_text(_)
rstrip_text(text) ==
    IF Len(text) > 1 /\ IsSpace(text[Len(text)])
    THEN rstrip_text(SubSeq(text, 1, Len(text) - 1))
    ELSE text

\* str.strip of a text: the blank lines at both ends go, and the first and
\* last remaining lines are stripped.
strip_text(text) ==
    LET core == rstrip_text(lstrip_text(text))
    IN  [i \in 1..Len(core) |->
            IF i = 1 \/ i = Len(core) THEN strip(core[i]) ELSE core[i]]

(***************************************************************************)
(* json.loads of a text: the value, or the JSONDecodeError it raises.      *)
(***************************************************************************)
json_loads(text) ==
    LET body == SelectSeq(text, LAMBDA l : ~IsSpace(l))
    IN  IF body = <<>> THEN JSONDecodeError("Expecting value")
        ELSE IF strip(body[1]) \notin Docs THEN
            IF body[1] = Junk
            THEN JSONDecodeError("Expecting property name enclosed in double quotes")
            ELSE JSONDecodeError("Expecting value")
        ELSE IF Len(body) > 1 THEN JSONDecodeError("Extra data")
        ELSE DocValue(strip(body[1]))

IsDecodeError(schema) == schema.type = "JSONDecodeError"

(***************************************************************************)
(* Paths are sequences of components.  The file system maps a path to what *)
(* is there: nothing, a file with its text, or a directory with what       *)
(* rglob("*.json") and rglob("*.md") enumerate under it.                   *)
(***************************************************************************)
parent(path) == SubSeq(path, 1, Len(path) - 1)
joinpath(dir, name) == Append(dir, name)

\* Path(__file__).resolve().parents[1]
repo_root == <<"repo">>

NoEntry == [kind |-> "missing", text |-> <<>>, jsons |-> <<>>, mds |-> <<>>]
File(text) == [kind |-> "file", text |-> text, jsons |-> <<>>, mds |-> <<>>]
Dir(jsons, mds) == [kind |-> "dir", text |-> <<>>, jsons |-> jsons, mds |-> mds]

JsonNames ==
    {TargetA, TargetB, "http_hash.json", "https_hash.json", "http.json", "https.json",
     "draft06.json", "empty.json", "int_uri.json", "null_uri.json", "list_uri.json",
     "dict_uri.json", "bad_keyword.json", "array.json", "broken.json"}
MdNames == {"schemas.md", "README.md", "two.md", "snippets.md", "prose.md"}

\* path.suffix.lower()
suffix(path) ==
    LET name == path[Len(path)]
    IN  IF name \in JsonNames THEN ".json"
        ELSE IF name \in MdNames THEN ".md"
        ELSE IF name = "notes.txt" THEN ".txt"
        ELSE ""

(***************************************************************************)
(* SchemaSource and its label.                                             *)
(***************************************************************************)
SchemaSource(path, label, schema) == [path |-> path, label |-> label, schema |-> schema]

\* str(path)
PathLabel(path) ==
    [form |-> "path", path |-> path, start_line |-> 0, block_index |-> 0,
     include |-> <<>>]
\* f"{path}:{start_line} (block {block_index})"
BlockLabel(path, start_line, block_index) ==
    [form |-> "block", path |-> path, start_line |-> start_line,
     block_index |-> block_index, include |-> <<>>]
\* f"{path}:{start_line} (block {block_index}, include {include_path})"
IncludeLabel(path, start_line, block_index, include_path) ==
    [form |-> "include", path |-> path, start_line |-> start_line,
     block_index |-> block_index, include |-> include_path]

\* The outcome of a generator: what it yielded, and whether it raised.
Yield(srcs) == [raised |-> FALSE, sources |-> srcs]
Raise == [raised |-> TRUE, sources |-> <<>>]

\* json.load raises on malformed text, and nothing here catches it.
parse_json_file(path, fs) ==
    LET data == json_loads(fs[path].text)
    IN  IF IsDecodeError(data) THEN Raise
        ELSE Yield(<<SchemaSource(path, PathLabel(path), data)>>)

parse_json_block(path, start_line, block_index, block_text) ==
    SchemaSource(path, BlockLabel(path, start_line, block_index), json_loads(block_text))

\* The match of SNIPPET_DIRECTIVE_RE against a stripped block: the block is
\* one directive line, and group(1) is its target.
SNIPPET_DIRECTIVE_RE(text) ==
    IF Len(text) = 1 /\ text[1] = DirectiveA THEN [matched |-> TRUE, target |-> TargetA]
    ELSE IF Len(text) = 1 /\ text[1] = DirectiveB THEN [matched |-> TRUE, target |-> TargetB]
    ELSE [matched |-> FALSE, target |-> ""]

\* candidate_paths, were the root tried before the Markdown file's directory.
candidate_paths_root_first(path, include_target) ==
    << joinpath(repo_root, include_target),
       joinpath(parent(path), include_target),
       joinpath(joinpath(repo_root, "json-schema"), include_target) >>

candidate_paths(path, include_target) ==
    << joinpath(parent(path), include_target),
       joinpath(repo_root, include_target),
       joinpath(joinpath(repo_root, "json-schema"), include_target) >>

\* candidate.exists()
exists(fs, path) == fs[path].kind # "missing"

\* next((candidate for candidate in candidate_paths if candidate.exists()), None)
first_existing(fs, candidates) ==
    LET found == { i \in 1..Len(candidates) : exists(fs, candidates[i]) }
    IN  IF found = {} THEN <<>>
        ELSE candidates[CHOOSE i \in found : \A j \in found : i <= j]

NotFoundMsg(include_target) == "snippet include not found: " \o include_target

\* parse_snippet_block, were the label given its include path before the parse.
parse_snippet_block_early_label(path, start_line, block_index, include_target, fs) ==
    LET include_path == first_existing(fs, candidate_paths(path, include_target))
        data == json_loads(fs[include_path].text)
    IN  IF include_path = <<>>
        THEN SchemaSource(path, BlockLabel(path, start_line, block_index),
                          JSONDecodeError(NotFoundMsg(include_target)))
        ELSE SchemaSource(path,
                          IncludeLabel(path, start_line, block_index, include_path),
                          data)

parse_snippet_block(path, start_line, block_index, include_target, fs) ==
    LET label == BlockLabel(path, start_line, block_index)
        include_path == first_existing(fs, candidate_paths(path, include_target))
        data == json_loads(fs[include_path].text)
    IN  IF include_path = <<>>
        THEN SchemaSource(path, label, JSONDecodeError(NotFoundMsg(include_target)))
        ELSE IF IsDecodeError(data) THEN SchemaSource(path, label, data)
        ELSE SchemaSource(path,
                          IncludeLabel(path, start_line, block_index, include_path),
                          data)

(***************************************************************************)
(* The fence scanner of parse_markdown_json_blocks.                        *)
(***************************************************************************)
ScanStart ==
    [in_block |-> FALSE, block_start_line |-> 0, block_lines |-> <<>>, blocks |-> <<>>]

\* scan_line, were a block closed by a bare fence only.
scan_line_bare_close(st, idx, line) ==
    LET stripped == strip(line)
    IN  IF ~st.in_block /\ startswith(lower(stripped), FenceJson)
        THEN [st EXCEPT !.in_block = TRUE, !.block_start_line = idx + 1,
                        !.block_lines = <<>>]
        ELSE IF st.in_block /\ stripped = Ticks
        THEN [st EXCEPT !.in_block = FALSE,
                        !.blocks = Append(@, <<st.block_start_line, join(st.block_lines)>>),
                        !.block_lines = <<>>]
        ELSE IF st.in_block
        THEN [st EXCEPT !.block_lines = Append(@, line)]
        ELSE st

\* One turn of the loop over enumerate(lines, start=1).
scan_line(st, idx, line) ==
    LET stripped == strip(line)
    IN  IF ~st.in_block /\ startswith(lower(stripped), FenceJson)
        THEN [st EXCEPT !.in_block = TRUE, !.block_start_line = idx + 1,
                        !.block_lines = <<>>]
        ELSE IF st.in_block /\ startswith(stripped, Ticks)
        THEN [st EXCEPT !.in_block = FALSE,
                        !.blocks = Append(@, <<st.block_start_line, join(st.block_lines)>>),
                        !.block_lines = <<>>]
        ELSE IF st.in_block
        THEN [st EXCEPT !.block_lines = Append(@, line)]
        ELSE st

RECURSIVE scan_lines(_, _, _)
scan_lines(lines, idx, st) ==
    IF idx > Len(lines) THEN st
    ELSE scan_lines(lines, idx + 1, scan_line(st, idx, lines[idx]))

extract_blocks(lines) == scan_lines(lines, 1, ScanStart).blocks

\* block_sources, were the block tested for emptiness before it is stripped.
block_sources_unstripped(path, block_index, block, fs) ==
    LET start_line == block[1]
        block_text == block[2]
        stripped_block == strip_text(block_text)
        snippet_match == SNIPPET_DIRECTIVE_RE(stripped_block)
    IN  IF block_text = <<"">> THEN <<>>
        ELSE IF snippet_match.matched
        THEN <<parse_snippet_block(path, start_line, block_index,
                                   snippet_match.target, fs)>>
        ELSE <<parse_json_block(path, start_line, block_index, block_text)>>

\* One turn of the loop over enumerate(blocks, start=1): what it yields.
block_sources(path, block_index, block, fs) ==
    LET start_line == block[1]
        block_text == block[2]
        stripped_block == strip_text(block_text)
        snippet_match == SNIPPET_DIRECTIVE_RE(stripped_block)
    IN  IF stripped_block = <<"">> THEN <<>>
        ELSE IF snippet_match.matched
        THEN <<parse_snippet_block(path, start_line, block_index,
                                   snippet_match.target, fs)>>
        ELSE <<parse_json_block(path, start_line, block_index, block_text)>>

RECURSIVE yield_blocks(_, _, _, _)
yield_blocks(path, blocks, block_index, fs) ==
    IF block_index > Len(blocks) THEN <<>>
    ELSE block_sources(path, block_index, blocks[block_index], fs)
         \o yield_blocks(path, blocks, block_index + 1, fs)

parse_markdown_json_blocks(path, fs) ==
    Yield(yield_blocks(path, extract_blocks(fs[path].text), 1, fs))

(***************************************************************************)
(* iter_schema_sources: one turn of its loop over the paths.               *)
(***************************************************************************)
\* yield from a, then yield from b; an exception ends the generator.
chain(a, b) ==
    IF a.raised \/ b.raised THEN Raise ELSE Yield(a.sources \o b.sources)

RECURSIVE parse_json_files(_, _)
parse_json_files(children, fs) ==
    IF children = <<>> THEN Yield(<<>>)
    ELSE chain(parse_json_file(Head(children), fs), parse_json_files(Tail(children), fs))

RECURSIVE parse_markdown_files(_, _)
parse_markdown_files(children, fs) ==
    IF children = <<>> THEN Yield(<<>>)
    ELSE chain(parse_markdown_json_blocks(Head(children), fs),
               parse_markdown_files(Tail(children), fs))

iter_path(path, fs) ==
    IF fs[path].kind = "dir"
    THEN chain(parse_json_files(fs[path].jsons, fs), parse_markdown_files(fs[path].mds, fs))
    ELSE IF suffix(path) = ".json" THEN parse_json_file(path, fs)
    ELSE IF suffix(path) = ".md" THEN parse_markdown_json_blocks(path, fs)
    ELSE Yield(<<>>)

(***************************************************************************)
(* The checkers.  A checker returns its list of failures, or raises.       *)
(***************************************************************************)
Failure(label, msg) == [label |-> label, msg |-> msg]
Return(failures) == [raised |-> FALSE, failures |-> failures]
RaiseTypeError == [raised |-> TRUE, failures |-> <<>>]

NotObjectMsg == "schema must be a JSON object"
NotDraft07Msg(schema_uri) == "$schema must be Draft 07 (got " \o schema_uri.repr \o ")"
InvalidJsonMsg(m) == "invalid JSON (" \o m \o ")"
SchemaErrorMsg == "SchemaError"

\* schema.get("$schema")
get_schema_uri(schema) == IF schema.has_schema THEN schema.schema_member ELSE PyNone

\* A list and a dict have no hash: the test "in" against a set raises TypeError.
hashable(value) == value.type \notin {"list", "dict"}

require_draft07(schema, label) ==
    IF schema.type # "dict" THEN Return(<<Failure(label, NotObjectMsg)>>)
    ELSE LET schema_uri == get_schema_uri(schema)
         IN  IF ~hashable(schema_uri) THEN RaiseTypeError
             ELSE IF ~(schema_uri.type = "str" /\ schema_uri.str \in DRAFT07_URIS)
             THEN Return(<<Failure(label, NotDraft07Msg(schema_uri))>>)
             ELSE Return(<<>>)

\* Draft7Validator.check_schema: whether it raises.  The meta-schema wants
\* "$schema" to be a string.
check_schema_raises(schema) ==
    \/ ~schema.keywords_ok
    \/ schema.has_schema /\ schema.schema_member.type # "str"

\* validate_schema, were the test for an object made first.
validate_schema_object_first(schema, label) ==
    IF schema.type # "dict" THEN <<Failure(label, NotObjectMsg)>>
    ELSE IF check_schema_raises(schema) THEN <<Failure(label, SchemaErrorMsg)>>
    ELSE <<>>

validate_schema(schema, label) ==
    IF IsDecodeError(schema) THEN <<Failure(label, InvalidJsonMsg(schema.msg))>>
    ELSE IF schema.type # "dict" THEN <<Failure(label, NotObjectMsg)>>
    ELSE IF check_schema_raises(schema) THEN <<Failure(label, SchemaErrorMsg)>>
    ELSE <<>>

\* One turn of main's loop over the sources: the failures it appends, with
\* the checker each came from, unless the dialect check raises.
check_source(source, allow_missing_schema) ==
    LET dialect == IF allow_missing_schema THEN Return(<<>>)
                   ELSE require_draft07(source.schema, source.label)
        structural == validate_schema(source.schema, source.label)
    IN  IF dialect.raised THEN [raised |-> TRUE, failures |-> <<>>, origin |-> <<>>]
        ELSE [raised |-> FALSE,
              failures |-> dialect.failures \o structural,
              origin |-> [i \in 1..Len(dialect.failures) |-> "dialect"]
                         \o [i \in 1..Len(structural) |-> "structural"]]

(***************************************************************************)
(* The files of the model.                                                 *)
(***************************************************************************)
DocsDir == joinpath(repo_root, "docs")
JsonSchemaDir == joinpath(repo_root, "json-schema")
TreeDir == joinpath(repo_root, "tree")
EmptyDir == joinpath(repo_root, "emptydir")

Targets == {TargetA, TargetB}
IncludeDirs == {DocsDir, repo_root, JsonSchemaDir}
IncludePaths == { joinpath(d, t) : d \in IncludeDirs, t \in Targets }

MdSchemas == joinpath(DocsDir, "schemas.md")
MdReadme == joinpath(repo_root, "README.md")
MdTwo == joinpath(DocsDir, "two.md")
MdSnippets == joinpath(DocsDir, "snippets.md")
MdProse == joinpath(DocsDir, "prose.md")
Notes == joinpath(DocsDir, "notes.txt")
TreeJson == joinpath(TreeDir, "empty.json")
TreeMd == joinpath(TreeDir, "two.md")

\* The text of each .json file of the json-schema directory.
JsonText(name) ==
    CASE name = TargetA -> <<SchemaDoc(StrLiteral(UriHttpsHash))>>
      [] name = "http_hash.json" -> <<SchemaDoc(StrLiteral(UriHttpHash))>>
      [] name = "https_hash.json" -> <<SchemaDoc(StrLiteral(UriHttpsHash))>>
      [] name = "http.json" -> <<SchemaDoc(StrLiteral(UriHttp))>>
      [] name = "https.json" -> <<SchemaDoc(StrLiteral(UriHttps)), Blank>>
      [] name = "draft06.json" -> <<SchemaDoc(StrLiteral(UriDraft06))>>
      [] name = "empty.json" -> <<DocEmptyObject>>
      [] name = "int_uri.json" -> <<SchemaDoc("7")>>
      [] name = "null_uri.json" -> <<SchemaDoc("null")>>
      [] name = "list_uri.json" -> <<SchemaDoc("[]")>>
      [] name = "dict_uri.json" -> <<SchemaDoc("{}")>>
      [] name = "bad_keyword.json" -> <<DocDraft07BadKeyword>>
      [] name = "array.json" -> <<DocArray>>
      [] name = "broken.json" -> <<Junk>>

TwoBlocks == <<FenceJson, DocEmptyObject, FenceBare, Blank, FenceJson, Junk, FenceBare>>
TwoSnippets ==
    <<FenceJson, DirectiveA, FenceBare, FenceJsonPadded, DirectiveB, FencePython>>
Prose == <<Blank, FenceJson, Blank, FenceBare, FencePython, DocEmptyObject, FenceBare>>

MainJsonFiles == { joinpath(JsonSchemaDir, n) : n \in JsonNames \ {TargetB} }
MainMdFiles == {MdTwo, MdSnippets, MdProse}

AllPaths ==
    IncludePaths \cup MainJsonFiles \cup MainMdFiles
    \cup {MdSchemas, MdReadme, Notes, TreeJson, TreeMd, TreeDir, EmptyDir}

\* The tree main() is run on.
MainDisk ==
    [path \in AllPaths |->
        CASE path \in MainJsonFiles -> File(JsonText(path[Len(path)]))
          [] path = MdTwo -> File(TwoBlocks)
          [] path = MdSnippets -> File(TwoSnippets)
          [] path = MdProse -> File(Prose)
          [] path = Notes -> File(<<Blank>>)
          [] path = TreeJson -> File(<<DocEmptyObject>>)
          [] path = TreeMd -> File(TwoBlocks)
          [] path = TreeDir -> Dir(<<TreeJson>>, <<TreeMd>>)
          [] path = EmptyDir -> Dir(<<>>, <<>>)
          [] OTHER -> NoEntry]

\* What main() can be given as a path.
ArgPaths == MainJsonFiles \cup MainMdFiles \cup {Notes, TreeDir, EmptyDir}

SeqsUpTo(S, lo, hi) == UNION { [1..n -> S] : n \in lo..hi }

(***************************************************************************)
(* The Markdown files the extractor is run on: every text of at most       *)
(* MaxLines lines of MdAlphabet beside a fixed tree, and the one-directive *)
(* texts beside every tree of include files.                               *)
(***************************************************************************)
MdAlphabet ==
    {FenceJson, FenceJsonPadded, FenceBare, FencePython, Blank, DirectiveA,
     DocEmptyObject, Junk}

\* What an include path can hold: nothing, malformed JSON, or a schema that
\* tells the directory it is in.
IncludeText(dir) ==
    IF dir = DocsDir THEN <<SchemaDoc(StrLiteral(UriHttpHash))>>
    ELSE IF dir = repo_root THEN <<SchemaDoc(StrLiteral(UriHttp))>>
    ELSE <<SchemaDoc(StrLiteral(UriHttps))>>

IncludeStates == {"missing", "valid", "broken"}

MdDisk(md_file, lines, includes) ==
    [path \in AllPaths |->
        IF path = md_file THEN File(lines)
        ELSE IF path \in IncludePaths THEN
            CASE includes[path] = "missing" -> NoEntry
              [] includes[path] = "valid" -> File(IncludeText(parent(path)))
              [] includes[path] = "broken" -> File(<<Junk>>)
        ELSE NoEntry]

OneDirective ==
    { <<FenceJson, d, FenceBare>> : d \in {DirectiveA, DirectiveB} }
    \cup { <<FenceJson, FenceBare, Blank, FenceJsonPadded, Blank, DirectiveB, FencePython>> }

FixedIncludes ==
    [path \in IncludePaths |->
        IF path = joinpath(JsonSchemaDir, TargetA) THEN "valid" ELSE "missing"]

(***************************************************************************)
(* State.  main() is run twice side by side on the same paths, once for    *)
(* each value of args.allow_missing_schema: pc, k, failures, origin,       *)
(* report and exit_status are those of the run with that flag.             *)
(***************************************************************************)
VARIABLES
    disk,         \* the file system
    paths,        \* args.paths
    p,            \* iter_schema_sources: the index of the path it is at
    yielded,      \* what iter_schema_sources has yielded so far
    sources,      \* main's list of the sources, <<>> until the scan has ended
    scan,         \* "scanning", "listed", or "raised" when the scan raised
    pc,           \* of each run: "check", "done", or "raised"
    k,            \* of each run: how many sources its loop has checked
    failures,     \* of each run: main's failures
    origin,       \* history: the checker each failure came from
    report,       \* of each run: what it printed
    exit_status,  \* of each run: the status of the process, -1 while it runs
    md_file,      \* the Markdown file the extractor is run on
    md_state,     \* "idle", "todo" or "done"
    blocks,       \* parse_markdown_json_blocks: its list of blocks
    md_sources    \* parse_markdown_json_blocks: what it yielded

vars == <<disk, paths, p, yielded, sources, scan, pc, k, failures, origin, report,
          exit_status, md_file, md_state, blocks, md_sources>>
mainVars == <<paths, p, yielded, sources, scan, pc, k, failures, origin, report, exit_status>>
mdVars == <<md_file, md_state, blocks, md_sources>>

Flags == BOOLEAN

NoReport == [kind |-> "none", lines |-> <<>>, count |-> 0]

MainStart ==
    /\ p = 1
    /\ yielded = <<>>
    /\ sources = <<>>
    /\ scan = "scanning"
    /\ pc = [f \in Flags |-> "check"]
    /\ k = [f \in Flags |-> 0]
    /\ failures = [f \in Flags |-> <<>>]
    /\ origin = [f \in Flags |-> <<>>]
    /\ report = [f \in Flags |-> NoReport]
    /\ exit_status = [f \in Flags |-> -1]

Init ==
    /\ disk = MainDisk
    /\ paths \in SeqsUpTo(ArgPaths, 1, MaxPaths)
    /\ MainStart
    /\ md_file = <<>>
    /\ md_state = "idle"
    /\ blocks = <<>>
    /\ md_sources = <<>>

\* sources = list(iter_schema_sources(paths)), one path at a time.  An
\* uncaught exception ends the process with a traceback and status 1.
ScanPath ==
    /\ scan = "scanning"
    /\ p <= Len(paths)
    /\ LET got == iter_path(paths[p], disk)
       IN  IF got.raised
           THEN /\ scan' = "raised"
                /\ pc' = [f \in Flags |-> "raised"]
                /\ exit_status' = [f \in Flags |-> 1]
                /\ UNCHANGED <<p, yielded, sources>>
           ELSE /\ yielded' = yielded \o got.sources
                /\ p' = p + 1
                /\ scan' = IF p = Len(paths) THEN "listed" ELSE "scanning"
                /\ sources' = IF p = Len(paths) THEN yielded' ELSE sources
                /\ UNCHANGED <<pc, exit_status>>
    /\ UNCHANGED <<disk, paths, k, failures, origin, report, mdVars>>

\* if not sources: print("No JSON schemas found."); return 1
NoSources(f) ==
    /\ scan = "listed"
    /\ pc[f] = "check"
    /\ sources = <<>>
    /\ report' = [report EXCEPT ![f] = [kind |-> "no_sources", lines |-> <<>>, count |-> 0]]
    /\ exit_status' = [exit_status EXCEPT ![f] = 1]
    /\ pc' = [pc EXCEPT ![f] = "done"]
    /\ UNCHANGED <<disk, paths, p, yielded, sources, scan, k, failures, origin, mdVars>>

\* One turn of the loop over the sources, of the run with flag f.
CheckSource(f) ==
    /\ scan = "listed"
    /\ pc[f] = "check"
    /\ k[f] < Len(sources)
    /\ LET got == check_source(sources[k[f] + 1], f)
       IN  IF got.raised
           THEN /\ pc' = [pc EXCEPT ![f] = "raised"]
                /\ exit_status' = [exit_status EXCEPT ![f] = 1]
                /\ UNCHANGED <<k, failures, origin>>
           ELSE /\ failures' = [failures EXCEPT ![f] = @ \o got.failures]
                /\ origin' = [origin EXCEPT ![f] = @ \o got.origin]
                /\ k' = [k EXCEPT ![f] = @ + 1]
                /\ UNCHANGED <<pc, exit_status>>
    /\ UNCHANGED <<disk, paths, p, yielded, sources, scan, report, mdVars>>

\* After the loop: the failures and status 1, or the summary and status 0.
Report(f) ==
    /\ scan = "listed"
    /\ pc[f] = "check"
    /\ sources # <<>>
    /\ k[f] = Len(sources)
    /\ IF failures[f] # <<>>
       THEN /\ report' = [report EXCEPT ![f] =
                              [kind |-> "failed", lines |-> failures[f], count |-> 0]]
            /\ exit_status' = [exit_status EXCEPT ![f] = 1]
       ELSE /\ report' = [report EXCEPT ![f] =
                              [kind |-> "ok", lines |-> <<>>, count |-> Len(sources)]]
            /\ exit_status' = [exit_status EXCEPT ![f] = 0]
    /\ pc' = [pc EXCEPT ![f] = "done"]
    /\ UNCHANGED <<disk, paths, p, yielded, sources, scan, k, failures, origin, mdVars>>

Next ==
    \/ ScanPath
    \/ \E f \in Flags : NoSources(f)
    \/ \E f \in Flags : CheckSource(f)
    \/ \E f \in Flags : Report(f)

Spec == Init /\ [][Next]_vars

(***************************************************************************)
(* The extractor alone: parse_markdown_json_blocks on one Markdown file.   *)
(***************************************************************************)
InitMd ==
    /\ \/ \E lines \in SeqsUpTo(MdAlphabet, 0, MaxLines) :
            /\ md_file = MdSchemas
            /\ disk = MdDisk(MdSchemas, lines, FixedIncludes)
       \/ \E file \in {MdSchemas, MdReadme}, lines \in OneDirective,
             includes \in [IncludePaths -> IncludeStates] :
            /\ md_file = file
            /\ disk = MdDisk(file, lines, includes)
    /\ md_state = "todo"
    /\ blocks = <<>>
    /\ md_sources = <<>>
    /\ paths = <<>>
    /\ MainStart

ParseMarkdown ==
    /\ md_state = "todo"
    /\ blocks' = extract_blocks(disk[md_file].text)
    /\ md_sources' = parse_markdown_json_blocks(md_file, disk).sources
    /\ md_state' = "done"
    /\ UNCHANGED <<disk, md_file, mainVars>>

NextMd == ParseMarkdown

SpecMd == InitMd /\ [][NextMd]_vars

(***************************************************************************)
(* Properties of the extractor, under SpecMd.                              *)
(***************************************************************************)
MdLines == disk[md_file].text
IsOpenFence(line) == startswith(lower(strip(line)), FenceJson)
IsFence(line) == startswith(strip(line), Ticks)
MdDone == md_state = "done"

\* The line that closes the block whose text starts at line s: the first
\* fence line from s on; 0 when there is none.
CloseOf(s) ==
    LET fences == { j \in s..Len(MdLines) : IsFence(MdLines[j]) }
    IN  IF fences = {} THEN 0 ELSE CHOOSE j \in fences : \A i \in fences : j <= i

\* Where the scan is outside a block again after block b (0: at the start).
AfterBlock(b) == IF b = 0 THEN 0 ELSE CloseOf(blocks[b][1])

\* The open fences outside a block after block b.
OpensAfter(b) == { j \in (AfterBlock(b) + 1)..Len(MdLines) : IsOpenFence(MdLines[j]) }

\* C5: the blocks extracted are the matched pairs of an open fence (a json
\* fence met outside a block) and its close fence (the first line from there
\* on that starts with the three backticks, whatever follows them), top to
\* bottom; each block's start line is the line after its open fence and its
\* text is the lines strictly between the two fences; an open fence with no
\* close fence before the end of the file yields no block.
C5_BlocksAreMatchedFencePairs ==
    MdDone =>
        /\ \A b \in 1..Len(blocks) :
              LET s == blocks[b][1]
                  c == CloseOf(s)
              IN  /\ s >= 2
                  /\ IsOpenFence(MdLines[s - 1])
                  /\ s - 1 > AfterBlock(b - 1)
                  /\ \A j \in (AfterBlock(b - 1) + 1)..(s - 2) : ~IsOpenFence(MdLines[j])
                  /\ c >= s
                  /\ blocks[b][2] = join(SubSeq(MdLines, s, c - 1))
        /\ \A j \in OpensAfter(Len(blocks)) :
              CloseOf(j + 1) = 0

\* One block, closed by a fence with an info string, and then a fence left
\* open.
C5_Witness ==
    /\ MdDone
    /\ Len(MdLines) = MaxLines
    /\ Len(blocks) = 1
    /\ blocks[1][2] # <<"">>
    /\ MdLines[blocks[1][1] + 1] = FencePython
    /\ OpensAfter(1) # {}

IsBlankText(text) == \A i \in 1..Len(text) : IsSpace(text[i])
KeptBlocks == { b \in 1..Len(blocks) : ~IsBlankText(blocks[b][2]) }

\* The index, among all the blocks, of the i-th block that is kept.
KeptIndex(i) ==
    CHOOSE b \in KeptBlocks : Cardinality({ c \in KeptBlocks : c <= b }) = i

DirectiveTarget(b) ==
    LET body == SelectSeq(blocks[b][2], LAMBDA l : l # Blank)
    IN  IF body = <<DirectiveA>> THEN TargetA
        ELSE IF body = <<DirectiveB>> THEN TargetB
        ELSE ""
DirectiveBlocks == { b \in 1..Len(blocks) : DirectiveTarget(b) # "" }
SourcesOfBlock(b) == { i \in 1..Len(md_sources) : md_sources[i].label.block_index = b }
SourceOfBlock(b) == md_sources[CHOOSE i \in SourcesOfBlock(b) : TRUE]

InMdDir(target) == Append(SubSeq(md_file, 1, Len(md_file) - 1), target)
InRoot(target) == <<"repo", target>>
InJsonSchema(target) == <<"repo", "json-schema", target>>
OnDisk(path) == disk[path].kind = "file"

\* The candidate an include of the target resolves to; <<>> when none exists.
Resolved(target) ==
    IF OnDisk(InMdDir(target)) THEN InMdDir(target)
    ELSE IF OnDisk(InRoot(target)) THEN InRoot(target)
    ELSE IF OnDisk(InJsonSchema(target)) THEN InJsonSchema(target)
    ELSE <<>>

\* C6: an include is looked for in the Markdown file's directory, then in
\* the root, then in the root's json-schema directory; what is loaded is the
\* content of the first of the three that exists, whatever exists after it,
\* and the not-found failure is produced only when none of them exists.
C6_FirstExistingCandidateWins ==
    MdDone =>
        \A b \in DirectiveBlocks :
            LET t == DirectiveTarget(b)
                schema == SourceOfBlock(b).schema
            IN  /\ SourcesOfBlock(b) # {}
                /\ Resolved(t) # <<>> => schema = json_loads(disk[Resolved(t)].text)
                /\ (IsDecodeError(schema) /\ schema.msg = NotFoundMsg(t))
                       <=> Resolved(t) = <<>>

\* The include is missing from the Markdown file's directory, and is both in
\* the root and in its json-schema directory: the root's is loaded.
C6_Witness ==
    /\ MdDone
    /\ md_file = MdSchemas
    /\ DirectiveBlocks = {1}
    /\ ~OnDisk(InMdDir(TargetA))
    /\ OnDisk(InRoot(TargetA))
    /\ OnDisk(InJsonSchema(TargetA))
    /\ md_sources[1].schema = Dict(TRUE, PyStr(UriHttp), TRUE)

\* C9: a block that is an include directive yields exactly one source.  When
\* no candidate exists the source carries a parse error whose message names
\* the target; when the file found is not valid JSON it carries that parse
\* failure; in both cases its label is that of the block (path, start line,
\* block index) with no include path.  Only when the file is loaded and
\* parsed does the label also hold the path of the file found.
C9_DirectiveYieldsOneLabelledSource ==
    MdDone =>
        \A b \in DirectiveBlocks :
            LET t == DirectiveTarget(b)
                found == Resolved(t)
                at == BlockLabel(md_file, blocks[b][1], b)
            IN  /\ Cardinality(SourcesOfBlock(b)) = 1
                /\ found = <<>> =>
                      /\ SourceOfBlock(b).schema = JSONDecodeError(NotFoundMsg(t))
                      /\ SourceOfBlock(b).label = at
                /\ (found # <<>> /\ IsDecodeError(json_loads(disk[found].text))) =>
                      /\ SourceOfBlock(b).schema = json_loads(disk[found].text)
                      /\ SourceOfBlock(b).label = at
                /\ (found # <<>> /\ ~IsDecodeError(json_loads(disk[found].text))) =>
                      /\ SourceOfBlock(b).schema = json_loads(disk[found].text)
                      /\ SourceOfBlock(b).label =
                            IncludeLabel(md_file, blocks[b][1], b, found)
                /\ SourceOfBlock(b).label.form = "include"
                      <=> ~IsDecodeError(SourceOfBlock(b).schema)

\* The second block of a file is a directive whose file is found, in the
\* file's own directory, and is malformed, while a well-formed one exists in
\* the root: the source is labelled at the block.
C9_Witness ==
    /\ MdDone
    /\ DirectiveBlocks = {2}
    /\ OnDisk(InMdDir(TargetB))
    /\ OnDisk(InRoot(TargetB))
    /\ md_file = MdSchemas
    /\ IsDecodeError(json_loads(disk[InMdDir(TargetB)].text))
    /\ ~IsDecodeError(json_loads(disk[InRoot(TargetB)].text))
    /\ Len(md_sources) = 1
    /\ md_sources[1].label = BlockLabel(md_file, 5, 2)
    /\ md_sources[1].schema.type = "JSONDecodeError"

(***************************************************************************)
(* Properties of main(), under Spec.                                       *)
(***************************************************************************)
Over(f) == pc[f] \in {"done", "raised"}
Strict == FALSE     \* the run that requires the dialect
Lenient == TRUE     \* the run with --allow-missing-schema

\* The failures the turn for source k + 1 has appended.
Added(f) == SubSeq(failures[f]', Len(failures[f]) + 1, Len(failures[f]'))

\* C10: for a source that carries a captured parse failure the structural
\* check emits exactly one "invalid JSON" failure and no meta-schema failure;
\* the dialect check, when required, emits "schema must be a JSON object"
\* before it: two failures with the dialect required, one without.  And no
\* source of any kind adds more than two failures.
C10_ParseFailureSourceCount ==
    [][\A f \in Flags :
          /\ k[f]' = k[f] + 1 =>
                LET s == sources[k[f] + 1]
                    invalid == Failure(s.label, InvalidJsonMsg(s.schema.msg))
                IN  /\ Len(Added(f)) <= 2
                    /\ IsDecodeError(s.schema) =>
                          Added(f) = IF f = Lenient THEN <<invalid>>
                                     ELSE <<Failure(s.label, NotObjectMsg), invalid>>
          /\ (scan = "listed" /\ pc[f] = "check" /\ pc[f]' = "raised") =>
                ~IsDecodeError(sources[k[f] + 1].schema)
      ]_vars

\* Both runs have checked the second block of two.md, which is malformed.
C10_Witness ==
    /\ paths = <<MdTwo>>
    /\ k[Strict] = 2 /\ k[Lenient] = 2
    /\ IsDecodeError(sources[2].schema)
    /\ failures[Strict][2].msg = NotObjectMsg
    /\ failures[Strict][3].msg = failures[Lenient][1].msg
    /\ Len(failures[Strict]) = 3
    /\ Len(failures[Lenient]) = 1

\* The .json files the scan meets up to its path i, in the order it meets them.
RECURSIVE JsonFilesMet(_)
JsonFilesMet(i) ==
    IF i = 0 THEN <<>>
    ELSE JsonFilesMet(i - 1) \o
         (IF disk[paths[i]].kind = "dir" THEN disk[paths[i]].jsons
          ELSE IF suffix(paths[i]) = ".json" THEN <<paths[i]>>
          ELSE <<>>)

Malformed(path) == IsDecodeError(json_loads(disk[path].text))
Carried(path) ==
    \E i \in 1..Len(sources) :
        sources[i].path = path /\ IsDecodeError(sources[i].schema)

\* C1: a parse error never aborts the scan.  Whatever source is malformed,
\* a standalone .json file included, the scan ends with the list of the
\* sources, the run goes on to check them, and the malformed source is in
\* the list as a SchemaSource that carries the parse failure.
C1_ParseErrorsNeverAbort ==
    /\ scan # "raised"
    /\ scan = "listed" =>
          \A i \in 1..Len(JsonFilesMet(Len(paths))) :
              Malformed(JsonFilesMet(Len(paths))[i]) => Carried(JsonFilesMet(Len(paths))[i])

\* What the dialect check is to return for a schema.
DialectFailures(schema, label) ==
    IF schema.type # "dict" THEN <<Failure(label, NotObjectMsg)>>
    ELSE IF schema.has_schema /\ schema.schema_member.type = "str"
            /\ schema.schema_member.str \in DRAFT07_URIS
    THEN <<>>
    ELSE <<Failure(label, NotDraft07Msg(get_schema_uri(schema)))>>

\* C2: for a source that is an object the dialect check returns no failure
\* when "$schema" is one of the four Draft-07 spellings, and otherwise, the
\* member being absent or any string, number, null, array or object,
\* exactly one failure that names the value, and the run goes on; for a
\* source that is no object it returns exactly the one failure "schema must
\* be a JSON object".
C2_DialectCheckOneFailureAndGoesOn ==
    [][(scan = "listed" /\ pc[Strict] = "check" /\ k[Strict] < Len(sources)
        /\ <<pc[Strict], k[Strict]>>' # <<pc[Strict], k[Strict]>>) =>
          LET s == sources[k[Strict] + 1]
              dialect == DialectFailures(s.schema, s.label)
          IN  /\ pc[Strict]' = "check"
              /\ k[Strict]' = k[Strict] + 1
              /\ SubSeq(Added(Strict), 1, Len(dialect)) = dialect
              /\ Len(Added(Strict)) = Len(dialect) + Len(validate_schema(s.schema, s.label))
      ]_vars

\* C3: the exit status is 0 exactly when sources were found and no failure
\* was produced; it is 1 when no sources were found, and then no checker
\* ran, or when a failure was produced; on success the summary counts the
\* sources found.
C3_ExitStatus ==
    \A f \in Flags :
        Over(f) =>
            /\ exit_status[f] \in {0, 1}
            /\ exit_status[f] = 0 <=> (sources # <<>> /\ failures[f] = <<>>)
            /\ sources = <<>> => k[f] = 0
            /\ exit_status[f] = 0 =>
                  (report[f].kind = "ok" /\ report[f].count = Len(sources))

\* The failures of the sources from i on, each source's dialect failures
\* before its structural failures.
RECURSIVE BothCheckers(_)
BothCheckers(i) ==
    IF i > Len(sources) THEN <<>>
    ELSE DialectFailures(sources[i].schema, sources[i].label)
         \o validate_schema(sources[i].schema, sources[i].label)
         \o BothCheckers(i + 1)

\* C4: with the dialect required, every source is tried by both checkers,
\* whether or not the first produced a failure, and the failures reported
\* are, source after source in the order of discovery, the source's dialect
\* failures and then its structural failures.
C4_ReportedInDiscoveryOrder ==
    (scan = "listed" /\ sources # <<>> /\ Over(Strict)) =>
        /\ k[Strict] = Len(sources)
        /\ report[Strict].kind = "failed" => report[Strict].lines = BothCheckers(1)
        /\ report[Strict].kind = "ok" => BothCheckers(1) = <<>>
        /\ report[Strict].kind # "none"

\* The failures of a run that came from the structural check.
StructuralOnly(f) ==
    LET kept == { i \in 1..Len(failures[f]) : origin[f][i] = "structural" }
        nth(n) == CHOOSE i \in kept : Cardinality({ j \in kept : j <= i }) = n
    IN  [n \in 1..Cardinality(kept) |-> failures[f][nth(n)]]

\* C7: the flag touches the dialect check alone.  On the same sources, the
\* run with the flag has no failure of the dialect check, and its failures
\* are those of the run without the flag less the dialect failures: the
\* same structural failures in the same order.
C7_FlagRemovesDialectFailuresOnly ==
    (Over(Strict) /\ Over(Lenient)) =>
        /\ \A i \in 1..Len(origin[Lenient]) : origin[Lenient][i] = "structural"
        /\ failures[Lenient] = StructuralOnly(Strict)
        /\ report[Lenient].kind # "ok" => report[Strict].kind = report[Lenient].kind

====
